---- MODULE Spec2Model ----
(***************************************************************************)
(* Police_Route_Finder.py: class Graph (add_vertex, add_edge, dijkstra)    *)
(* and class PoliceDispatchSystem (add_cop, remove_cop, find_nearest_cop). *)
(*                                                                         *)
(* Python objects are named so that two references are equal exactly when  *)
(* they are the same object: the Vertex objects constructed for one id are *)
(* numbered 1, 2, ... (<<id, n>>), the Edge objects constructed for one    *)
(* unordered pair of ids likewise (<<lo, hi, n>>).                         *)
(***************************************************************************)
EXTENDS Integers, Sequences, FiniteSets, Bags, TLC

VARIABLES vertices, cops, ret, frame

vars == <<vertices, cops, ret, frame>>

----------------------------------------------------------------------------
(* Bounds of the model and the inputs the calls are drawn from.            *)

MaxVertexObjects == 3
MaxEdgeObjects == 3
MaxWalkLen == 4

Ids == {0, 1, 2}
(* The calls add_vertex(id, x, y) and the pairs add_edge(id1, id2, ...) of *)
(* the model: every id; every pair of ids, one of them named from its      *)
(* larger id, and one self-loop.                                           *)
VertexCalls == {<<0, 0, 0>>, <<1, 1, 0>>, <<2, 2, 0>>}
EdgeCalls == {<<0, 1>>, <<1, 2>>, <<2, 0>>, <<1, 1>>}
Conditions == {"light", "normal", "rush_hour"}
WeightChoices ==
    { [light |-> 1,  normal |-> 5,  rush_hour |-> 5],
      [light |-> 5,  normal |-> 12, rush_hour |-> 10],
      [light |-> -5, normal |-> 0,  rush_hour |-> 3] }
CopIds == {"R1", "R2"}
(* The add_cop and add_edge calls made while the dispatch system is in     *)
(* use: two cops that can share vertex 1 or stand on either side of it.    *)
CopCalls == {<<"R1", 0>>, <<"R1", 1>>, <<"R2", 1>>, <<"R2", 2>>}
DispatchEdgeCalls == {<<0, 1>>, <<1, 2>>, <<2, 0>>}
DispatchWeights == { w \in WeightChoices : w.light > 0 }

(* float('infinity'): above every sum of costs the model can form.         *)
Infinity == 1000000
(* Python's None, in the place of a vertex id, a cop id, a time, a path.   *)
None == -1000000
NoneCop == "None"
NonePath == <<None>>

----------------------------------------------------------------------------
(* Edge.get_weight                                                         *)

get_weight(edge, traffic_condition) ==
    IF traffic_condition \in DOMAIN edge.weights
    THEN edge.weights[traffic_condition]
    ELSE edge.weights["normal"]

----------------------------------------------------------------------------
(* Graph.add_vertex, Graph.add_edge                                        *)

Lo(a, b) == IF a <= b THEN a ELSE b
Hi(a, b) == IF a <= b THEN b ELSE a

Max(S) == CHOOSE m \in S : \A n \in S : n <= m

RECURSIVE SumOver(_, _)
SumOver(f, S) ==
    IF S = {} THEN 0
    ELSE LET i == CHOOSE j \in S : TRUE IN f[i] + SumOver(f, S \ {i})

(* Number of Vertex objects constructed so far for the ids of the graph.   *)
VertexObjects(vs) == SumOver([i \in DOMAIN vs |-> vs[i].obj[2]], DOMAIN vs)

(* The Edge objects still referenced from some adjacency map.              *)
LiveEdges(vs) ==
    UNION { { vs[u].edges[v].obj : v \in DOMAIN vs[u].edges } : u \in DOMAIN vs }

(* The number of the last live Edge object of the pair {a, b}, 0 if none.  *)
LastEdge(vs, a, b) ==
    Max({0} \cup { o[3] : o \in { e \in LiveEdges(vs) : e[1] = Lo(a, b) /\ e[2] = Hi(a, b) } })

Pairs == { <<a, b>> \in Ids \X Ids : a <= b }

EdgeObjects(vs) == SumOver([p \in Pairs |-> LastEdge(vs, p[1], p[2])], Pairs)

(* Vertex(id, x, y): a new object with an empty adjacency map.             *)
Vertex(vs, id, x, y) ==
    [ obj   |-> <<id, IF id \in DOMAIN vs THEN vs[id].obj[2] + 1 ELSE 1>>,
      x     |-> x,
      y     |-> y,
      edges |-> <<>> ]

(* Edge(vertex1, vertex2, weights)                                         *)
Edge(vs, id1, id2, weights) ==
    [ obj     |-> <<Lo(id1, id2), Hi(id1, id2), LastEdge(vs, id1, id2) + 1>>,
      vertex1 |-> vs[id1].obj,
      vertex2 |-> vs[id2].obj,
      weights |-> weights ]

(* self.vertices[id] = vertex: no test of whether id is already a key.     *)
GraphAddVertex(vs, id, x, y) == (id :> Vertex(vs, id, x, y)) @@ vs

add_vertex(id, x, y) ==
    /\ vertices' = GraphAddVertex(vertices, id, x, y)
    /\ ret' = [ op |-> "add_vertex", args |-> <<id, x, y>>, raised |-> FALSE,
                value |-> Vertex(vertices, id, x, y).obj ]
    /\ UNCHANGED <<cops, frame>>

(* The guard of add_edge: raise ValueError unless both ids are keys.       *)
AddEdgeRaises(vs, id1, id2) == id1 \notin DOMAIN vs \/ id2 \notin DOMAIN vs

(* self.vertices[id1].edges[id2] = edge; self.vertices[id2].edges[id1] = edge *)
GraphAddEdge(vs, id1, id2, weights) ==
    LET edge == Edge(vs, id1, id2, weights)
        vs1  == [vs EXCEPT ![id1].edges = (id2 :> edge) @@ @]
    IN [vs1 EXCEPT ![id2].edges = (id1 :> edge) @@ @]

(* An add_edge that tests and fills the endpoints one after the other.    *)
add_edge_lazy(id1, id2, weights) ==
    /\ IF id1 \notin DOMAIN vertices
       THEN /\ vertices' = vertices
            /\ ret' = [ op |-> "add_edge", args |-> <<id1, id2, weights>>,
                        raised |-> TRUE, value |-> None ]
       ELSE IF id2 \notin DOMAIN vertices
       THEN /\ vertices' =
                 [vertices EXCEPT ![id1].edges =
                     (id2 :> [ obj |-> <<Lo(id1, id2), Hi(id1, id2), 1>>,
                               vertex1 |-> vertices[id1].obj, vertex2 |-> None,
                               weights |-> weights ]) @@ @]
            /\ ret' = [ op |-> "add_edge", args |-> <<id1, id2, weights>>,
                        raised |-> TRUE, value |-> None ]
       ELSE /\ vertices' = GraphAddEdge(vertices, id1, id2, weights)
            /\ ret' = [ op |-> "add_edge", args |-> <<id1, id2, weights>>,
                        raised |-> FALSE,
                        value |-> Edge(vertices, id1, id2, weights).obj ]
    /\ UNCHANGED <<cops, frame>>

add_edge(id1, id2, weights) ==
    /\ IF AddEdgeRaises(vertices, id1, id2)
       THEN /\ vertices' = vertices
            /\ ret' = [ op |-> "add_edge", args |-> <<id1, id2, weights>>,
                        raised |-> TRUE, value |-> None ]
       ELSE /\ vertices' = GraphAddEdge(vertices, id1, id2, weights)
            /\ ret' = [ op |-> "add_edge", args |-> <<id1, id2, weights>>,
                        raised |-> FALSE,
                        value |-> Edge(vertices, id1, id2, weights).obj ]
    /\ UNCHANGED <<cops, frame>>

----------------------------------------------------------------------------
(* Graph.dijkstra                                                          *)

(* Python's order of the (distance, id) tuples on the heap.                *)
TupleLess(s, t) == s[1] < t[1] \/ (s[1] = t[1] /\ s[2] < t[2])

(* A heap that hands out its greatest tuple.                               *)
HeapMax(pq) ==
    CHOOSE t \in BagToSet(pq) : \A s \in BagToSet(pq) : ~TupleLess(t, s)

(* heappop returns the least tuple of the heap.                            *)
HeapMin(pq) ==
    CHOOSE t \in BagToSet(pq) : \A s \in BagToSet(pq) : ~TupleLess(s, t)

heappop(pq) == pq (-) SetToBag({HeapMin(pq)})

heappush(pq, t) == pq (+) SetToBag({t})

(* The initial state without distances[start_id] = 0.                      *)
DijkstraInitNoSource(vs, start_id) ==
    [ distances    |-> [v \in DOMAIN vs |-> Infinity],
      predecessors |-> [v \in DOMAIN vs |-> None],
      pq           |-> SetToBag({<<0, start_id>>}),
      visited      |-> {},
      broke        |-> FALSE ]

(* The state before the while loop.                                        *)
DijkstraInit(vs, start_id) ==
    [ distances    |-> [v \in DOMAIN vs |-> IF v = start_id THEN 0 ELSE Infinity],
      predecessors |-> [v \in DOMAIN vs |-> None],
      pq           |-> SetToBag({<<0, start_id>>}),
      visited      |-> {},
      broke        |-> FALSE ]

(* One neighbour of the for loop.                                          *)
(* A relaxation that does not skip the visited neighbours.                 *)
RelaxRevisit(vs, st, current_distance, current_id, neighbor_id, traffic_condition) ==
    LET weight   == get_weight(vs[current_id].edges[neighbor_id], traffic_condition)
        distance == current_distance + weight
    IN IF distance < st.distances[neighbor_id]
       THEN [st EXCEPT !.distances[neighbor_id] = distance,
                       !.predecessors[neighbor_id] = current_id,
                       !.pq = heappush(@, <<distance, neighbor_id>>)]
       ELSE st

(* if neighbor_id in visited: continue; then the test of the new distance. *)
Relax(vs, st, current_distance, current_id, neighbor_id, traffic_condition) ==
    IF neighbor_id \in st.visited THEN st
    ELSE LET weight   == get_weight(vs[current_id].edges[neighbor_id], traffic_condition)
             distance == current_distance + weight
         IN IF distance < st.distances[neighbor_id]
            THEN [st EXCEPT !.distances[neighbor_id] = distance,
                            !.predecessors[neighbor_id] = current_id,
                            !.pq = heappush(@, <<distance, neighbor_id>>)]
            ELSE st

(* The for loop over the items of the adjacency map. Each neighbour        *)
(* changes its own entries only and the heap is a multiset, so the order   *)
(* of the items does not show in the result.                               *)
RECURSIVE ForNeighbors(_, _, _, _, _, _)
ForNeighbors(vs, st, current_distance, current_id, todo, traffic_condition) ==
    IF todo = {} THEN st
    ELSE LET n == CHOOSE m \in todo : TRUE
         IN ForNeighbors(vs,
                Relax(vs, st, current_distance, current_id, n, traffic_condition),
                current_distance, current_id, todo \ {n}, traffic_condition)

(* An iteration that also leaves the loop once the target has been given  *)
(* a distance, before the target is popped.                                *)
WhileBodyBreakOnPush(vs, st, end_id, traffic_condition) ==
    LET top              == HeapMin(st.pq)
        current_distance == top[1]
        current_id       == top[2]
        popped           == [st EXCEPT !.pq = heappop(@)]
    IN IF current_id = end_id THEN [popped EXCEPT !.broke = TRUE]
       ELSE IF current_id \in st.visited THEN popped
       ELSE LET r == ForNeighbors(vs,
                        [popped EXCEPT !.visited = @ \cup {current_id}],
                        current_distance, current_id,
                        DOMAIN vs[current_id].edges, traffic_condition)
            IN IF r.distances[end_id] < st.distances[end_id]
               THEN [r EXCEPT !.broke = TRUE]
               ELSE r

(* One iteration of the while loop.                                        *)
WhileBody(vs, st, end_id, traffic_condition) ==
    LET top              == HeapMin(st.pq)
        current_distance == top[1]
        current_id       == top[2]
        popped           == [st EXCEPT !.pq = heappop(@)]
    IN IF current_id = end_id THEN [popped EXCEPT !.broke = TRUE]
       ELSE IF current_id \in st.visited THEN popped
       ELSE ForNeighbors(vs,
                [popped EXCEPT !.visited = @ \cup {current_id}],
                current_distance, current_id,
                DOMAIN vs[current_id].edges, traffic_condition)

RECURSIVE WhileLoop(_, _, _, _)
WhileLoop(vs, st, end_id, traffic_condition) ==
    IF st.pq = EmptyBag \/ st.broke THEN st
    ELSE WhileLoop(vs, WhileBody(vs, st, end_id, traffic_condition),
                   end_id, traffic_condition)

Reverse(s) == [i \in 1..Len(s) |-> s[Len(s) + 1 - i]]

(* Reconstruct path: the walk over the predecessors, then path.reverse().  *)
RECURSIVE WalkBack(_, _, _)
WalkBack(predecessors, current_id, path) ==
    IF current_id = None THEN path
    ELSE WalkBack(predecessors, predecessors[current_id], Append(path, current_id))

(* The walk over the predecessors without path.reverse().                  *)
ReconstructPathUnreversed(predecessors, end_id) == WalkBack(predecessors, end_id, <<>>)

ReconstructPath(predecessors, end_id) == Reverse(WalkBack(predecessors, end_id, <<>>))

DijkstraRaises(vs, start_id, end_id) ==
    start_id \notin DOMAIN vs \/ end_id \notin DOMAIN vs

(* The (total_time, path) returned for ids of the graph.                   *)
dijkstra(vs, start_id, end_id, traffic_condition) ==
    LET st == WhileLoop(vs, DijkstraInit(vs, start_id), end_id, traffic_condition)
    IN <<st.distances[end_id], ReconstructPath(st.predecessors, end_id)>>

CallDijkstra(start_id, end_id, traffic_condition) ==
    /\ ret' = IF DijkstraRaises(vertices, start_id, end_id)
              THEN [ op |-> "dijkstra", args |-> <<start_id, end_id, traffic_condition>>,
                     raised |-> TRUE, value |-> None ]
              ELSE [ op |-> "dijkstra", args |-> <<start_id, end_id, traffic_condition>>,
                     raised |-> FALSE,
                     value |-> dijkstra(vertices, start_id, end_id, traffic_condition) ]
    /\ UNCHANGED <<vertices, cops, frame>>

----------------------------------------------------------------------------
(* PoliceDispatchSystem: self.cops is a dict, kept here as the sequence of *)
(* its items <<cop_id, vertex_id>> in the order Python iterates them.      *)

CopIndex(cs, cop_id) ==
    IF \E i \in 1..Len(cs) : cs[i][1] = cop_id
    THEN CHOOSE i \in 1..Len(cs) : cs[i][1] = cop_id
    ELSE 0

(* An assignment that adds an item whether or not the key is present.      *)
DictSetAppend(cs, cop_id, vertex_id) == Append(cs, <<cop_id, vertex_id>>)

(* self.cops[cop_id] = vertex_id: a present key keeps its place.           *)
DictSet(cs, cop_id, vertex_id) ==
    IF CopIndex(cs, cop_id) = 0 THEN Append(cs, <<cop_id, vertex_id>>)
    ELSE [cs EXCEPT ![CopIndex(cs, cop_id)] = <<cop_id, vertex_id>>]

(* del self.cops[cop_id]                                                   *)
DictDel(cs, cop_id) ==
    LET k == CopIndex(cs, cop_id)
    IN [i \in 1..(Len(cs) - 1) |-> IF i < k THEN cs[i] ELSE cs[i + 1]]

add_cop(cop_id, vertex_id) ==
    /\ IF vertex_id \notin DOMAIN vertices
       THEN /\ cops' = cops
            /\ ret' = [ op |-> "add_cop", args |-> <<cop_id, vertex_id>>,
                        raised |-> TRUE, value |-> None ]
       ELSE /\ cops' = DictSet(cops, cop_id, vertex_id)
            /\ ret' = [ op |-> "add_cop", args |-> <<cop_id, vertex_id>>,
                        raised |-> FALSE, value |-> None ]
    /\ UNCHANGED <<vertices, frame>>

remove_cop(cop_id) ==
    /\ cops' = IF CopIndex(cops, cop_id) # 0 THEN DictDel(cops, cop_id) ELSE cops
    /\ ret' = [ op |-> "remove_cop", args |-> <<cop_id>>, raised |-> FALSE,
                value |-> None ]
    /\ UNCHANGED <<vertices, frame>>

(* A test that lets an equal time replace the best as well.                *)
CloserOrEqual(time, shortest_time) == time <= shortest_time

(* The test of the for loop: a strictly smaller time replaces the best.    *)
Closer(time, shortest_time) == time < shortest_time

(* A loop that updates the time and the cop but keeps the first path.      *)
RECURSIVE ForCopsStalePath(_, _, _, _, _, _)
ForCopsStalePath(vs, cs, i, crime_location, traffic_condition, best) ==
    IF i > Len(cs) THEN best
    ELSE LET r == dijkstra(vs, cs[i][2], crime_location, traffic_condition)
         IN ForCopsStalePath(vs, cs, i + 1, crime_location, traffic_condition,
                IF Closer(r[1], best[2])
                THEN <<cs[i][1], r[1], IF best[3] = NonePath THEN r[2] ELSE best[3]>>
                ELSE best)

(* The for loop over self.cops.items(), from item i on.                    *)
RECURSIVE ForCops(_, _, _, _, _, _)
ForCops(vs, cs, i, crime_location, traffic_condition, best) ==
    IF i > Len(cs) THEN best
    ELSE LET r == dijkstra(vs, cs[i][2], crime_location, traffic_condition)
         IN ForCops(vs, cs, i + 1, crime_location, traffic_condition,
                    IF Closer(r[1], best[2]) THEN <<cs[i][1], r[1], r[2]>> ELSE best)

(* dijkstra raises for a crime location that is no vertex, once there is a *)
(* cop to call it for.                                                     *)
FindNearestRaises(vs, cs, crime_location) ==
    cs # <<>> /\ crime_location \notin DOMAIN vs

(* A find_nearest_cop without the test of an empty directory.              *)
find_nearest_cop_unguarded(vs, cs, crime_location, traffic_condition) ==
    ForCops(vs, cs, 1, crime_location, traffic_condition,
            <<NoneCop, Infinity, NonePath>>)

(* The (nearest_cop, shortest_time, best_path) returned.                   *)
find_nearest_cop(vs, cs, crime_location, traffic_condition) ==
    IF cs = <<>> THEN <<NoneCop, None, NonePath>>
    ELSE ForCops(vs, cs, 1, crime_location, traffic_condition,
                 <<NoneCop, Infinity, NonePath>>)

CallFindNearestCop(crime_location, traffic_condition) ==
    /\ ret' = IF FindNearestRaises(vertices, cops, crime_location)
              THEN [ op |-> "find_nearest_cop",
                     args |-> <<crime_location, traffic_condition>>,
                     raised |-> TRUE, value |-> None ]
              ELSE [ op |-> "find_nearest_cop",
                     args |-> <<crime_location, traffic_condition>>,
                     raised |-> FALSE,
                     value |-> find_nearest_cop(vertices, cops, crime_location,
                                                traffic_condition) ]
    /\ UNCHANGED <<vertices, cops, frame>>

----------------------------------------------------------------------------
(* main_menu: one call per turn of its loop; the result is shown and the  *)
(* loop comes back to the prompt.                                          *)

NoCall == [op |-> "none", args |-> <<>>, raised |-> FALSE, value |-> None]

AtPrompt == ret = NoCall

Continue ==
    /\ ~AtPrompt
    /\ ret' = NoCall
    /\ UNCHANGED <<vertices, cops, frame>>

(* The locals of a running dijkstra call: where it stands (the while loop *)
(* or the walk over the predecessors), its arguments, the state of the     *)
(* loop, and current_id and path of the walk. No call is running at first. *)
NoFrame == [pc |-> "none", args |-> <<>>, st |-> <<>>, current_id |-> None, path |-> <<>>]

(* Graph() and PoliceDispatchSystem(graph): no vertices, no cops.          *)
Init ==
    /\ vertices = <<>>
    /\ cops = <<>>
    /\ ret = NoCall
    /\ frame = NoFrame

CanAddVertex == AtPrompt /\ VertexObjects(vertices) < MaxVertexObjects
CanAddEdge == AtPrompt /\ EdgeObjects(vertices) < MaxEdgeObjects

Next ==
    \/ \E v \in VertexCalls : CanAddVertex /\ add_vertex(v[1], v[2], v[3])
    \/ \E e \in EdgeCalls, w \in WeightChoices : CanAddEdge /\ add_edge(e[1], e[2], w)
    \/ \E a \in Ids, b \in Ids, c \in Conditions : AtPrompt /\ CallDijkstra(a, b, c)
    \/ Continue

Spec == Init /\ [][Next]_vars

(* The dispatch system over a graph that is still being built.             *)
NextDispatch ==
    \/ \E v \in VertexCalls : CanAddVertex /\ add_vertex(v[1], v[2], v[3])
    \/ \E e \in DispatchEdgeCalls, w \in DispatchWeights :
          CanAddEdge /\ add_edge(e[1], e[2], w)
    \/ \E k \in CopCalls : AtPrompt /\ add_cop(k[1], k[2])
    \/ \E r \in CopIds : AtPrompt /\ remove_cop(r)
    \/ \E t \in Ids, c \in Conditions : AtPrompt /\ CallFindNearestCop(t, c)
    \/ Continue

SpecDispatch == Init /\ [][NextDispatch]_vars

----------------------------------------------------------------------------
(* Graph.dijkstra run one step at a time: the test of the ids and the      *)
(* initialisation, each iteration of the while loop, the start of the      *)
(* reconstruction, each iteration of the walk, and the return.             *)

EnterDijkstra(start_id, end_id, traffic_condition) ==
    /\ frame.pc = "none"
    /\ IF DijkstraRaises(vertices, start_id, end_id)
       THEN /\ ret' = [ op |-> "dijkstra",
                        args |-> <<start_id, end_id, traffic_condition>>,
                        raised |-> TRUE, value |-> None ]
            /\ frame' = frame
       ELSE /\ ret' = [ op |-> "dijkstra_running",
                        args |-> <<start_id, end_id, traffic_condition>>,
                        raised |-> FALSE, value |-> None ]
            /\ frame' = [ pc |-> "while",
                          args |-> <<start_id, end_id, traffic_condition>>,
                          st |-> DijkstraInit(vertices, start_id),
                          current_id |-> None, path |-> <<>> ]
    /\ UNCHANGED <<vertices, cops>>

WhileStep ==
    /\ frame.pc = "while"
    /\ frame.st.pq # EmptyBag /\ ~frame.st.broke
    /\ frame' = [frame EXCEPT !.st = WhileBody(vertices, @, frame.args[2], frame.args[3])]
    /\ UNCHANGED <<vertices, cops, ret>>

(* path = []; current_id = end_id                                          *)
WhileExit ==
    /\ frame.pc = "while"
    /\ frame.st.pq = EmptyBag \/ frame.st.broke
    /\ frame' = [frame EXCEPT !.pc = "walk", !.current_id = frame.args[2], !.path = <<>>]
    /\ UNCHANGED <<vertices, cops, ret>>

(* path.append(current_id); current_id = predecessors[current_id]          *)
WalkStep ==
    /\ frame.pc = "walk"
    /\ frame.current_id # None
    /\ frame' = [frame EXCEPT !.path = Append(@, frame.current_id),
                              !.current_id = frame.st.predecessors[frame.current_id]]
    /\ UNCHANGED <<vertices, cops, ret>>

(* path.reverse(); return distances[end_id], path                          *)
ReturnDijkstra ==
    /\ frame.pc = "walk"
    /\ frame.current_id = None
    /\ ret' = [ op |-> "dijkstra", args |-> frame.args, raised |-> FALSE,
                value |-> <<frame.st.distances[frame.args[2]], Reverse(frame.path)>> ]
    /\ frame' = NoFrame
    /\ UNCHANGED <<vertices, cops>>

DijkstraSteps == WhileStep \/ WhileExit \/ WalkStep \/ ReturnDijkstra

StepConditions == {"light"}
StepWeights == {w \in WeightChoices : w.rush_hour # 10}

NextSteps ==
    \/ \E v \in VertexCalls : CanAddVertex /\ add_vertex(v[1], v[2], v[3])
    \/ \E e \in EdgeCalls, w \in StepWeights : CanAddEdge /\ add_edge(e[1], e[2], w)
    \/ \E a \in Ids, b \in Ids, c \in StepConditions : AtPrompt /\ EnterDijkstra(a, b, c)
    \/ WhileStep
    \/ WhileExit
    \/ WalkStep
    \/ ReturnDijkstra
    \/ frame.pc = "none" /\ Continue

(* A call that has started keeps running: its next step is always taken.   *)
SpecSteps == Init /\ [][NextSteps]_vars /\ WF_vars(DijkstraSteps)

----------------------------------------------------------------------------
(* Paths of the graph, read off the adjacency maps alone.                  *)

(* The sequences of vertices from a to b in which each vertex has the next *)
(* one as a key of its adjacency map, of up to MaxWalkLen vertices.        *)
Walks(vs, a, b) ==
    { p \in UNION { [1..n -> DOMAIN vs] : n \in 1..MaxWalkLen } :
        /\ p[1] = a
        /\ p[Len(p)] = b
        /\ \A i \in 1..(Len(p) - 1) : p[i + 1] \in DOMAIN vs[p[i]].edges }

RECURSIVE CostFrom(_, _, _, _)
CostFrom(vs, p, i, c) ==
    IF i >= Len(p) THEN 0
    ELSE vs[p[i]].edges[p[i + 1]].weights[c] + CostFrom(vs, p, i + 1, c)

(* The summed cost under condition c of the edges along p.                 *)
WalkCost(vs, p, c) == CostFrom(vs, p, 1, c)

RECURSIVE Closure(_, _)
Closure(vs, S) ==
    LET T == S \cup UNION { DOMAIN vs[u].edges : u \in S }
    IN IF T = S THEN S ELSE Closure(vs, T)

Reachable(vs, a, b) == b \in Closure(vs, {a})

NonNegativeUnder(vs, c) ==
    \A u \in DOMAIN vs : \A v \in DOMAIN vs[u].edges : vs[u].edges[v].weights[c] >= 0

(* The last call was dijkstra(a, b, c) on two vertices of the graph.       *)
DijkstraReturned == ret.op = "dijkstra" /\ ~ret.raised

----------------------------------------------------------------------------
(* C1: with non-negative costs under c, the cost dijkstra(a, b, c) returns *)
(* is at most the summed cost of every path from a to b; with edges 0-1    *)
(* and 1-2 of normal cost 5 and no edge 0-2, dijkstra(0, 2, 'normal')      *)
(* returns cost 10 and path [0, 1, 2].                                     *)
C1_Optimality ==
    DijkstraReturned =>
      LET a == ret.args[1]
          b == ret.args[2]
          c == ret.args[3]
      IN /\ NonNegativeUnder(vertices, c) =>
              \A p \in Walks(vertices, a, b) : ret.value[1] <= WalkCost(vertices, p, c)
         /\ ( /\ a = 0 /\ b = 2 /\ c = "normal"
              /\ DOMAIN vertices[0].edges = {1}
              /\ DOMAIN vertices[2].edges = {1}
              /\ DOMAIN vertices[1].edges = {0, 2}
              /\ vertices[0].edges[1].weights["normal"] = 5
              /\ vertices[1].edges[2].weights["normal"] = 5 )
            => ret.value = <<10, <<0, 1, 2>>>>

(* A triangle whose direct edge 0-2 costs more than the way over 1.        *)
C1_Witness ==
    /\ DijkstraReturned
    /\ ret.args = <<0, 2, "light">>
    /\ NonNegativeUnder(vertices, "light")
    /\ 2 \in DOMAIN vertices[0].edges
    /\ vertices[0].edges[2].weights["light"] = 5
    /\ ret.value = <<2, <<0, 1, 2>>>>

(* C2: for an existing target b that is not reachable from the existing    *)
(* source a, a # b, dijkstra(a, b, c) returns infinite cost and an empty   *)
(* path.                                                                   *)
C2_UnreachableEmptyPath ==
    ( /\ DijkstraReturned
      /\ ret.args[1] # ret.args[2]
      /\ ~Reachable(vertices, ret.args[1], ret.args[2]) )
    => ret.value = <<Infinity, <<>>>>

(* C3: dijkstra(a, a, c) returns cost 0 and the path [a].                  *)
C3_TrivialPath ==
    (DijkstraReturned /\ ret.args[1] = ret.args[2])
    => ret.value = <<0, <<ret.args[1]>>>>

(* dijkstra(1, 1, 'light') with a self-loop of negative cost at 1 and an   *)
(* edge to another vertex.                                                 *)
C3_Witness ==
    /\ DijkstraReturned
    /\ ret.args = <<1, 1, "light">>
    /\ {0, 1} \subseteq DOMAIN vertices[1].edges
    /\ vertices[1].edges[1].weights["light"] < 0
    /\ ret.value = <<0, <<1>>>>

----------------------------------------------------------------------------
(* C4: add_vertex with an id already in the graph fails and leaves the     *)
(* graph unchanged.                                                        *)
C4_DuplicateVertexRejected ==
    [][ \A v \in VertexCalls :
          (add_vertex(v[1], v[2], v[3]) /\ v[1] \in DOMAIN vertices)
          => (ret'.raised /\ vertices' = vertices) ]_vars

(* C5: in every state of the graph every edge's cost for every recognized  *)
(* condition is non-negative.                                              *)
C5_NoNegativeCost ==
    \A u \in DOMAIN vertices : \A v \in DOMAIN vertices[u].edges :
        \A c \in Conditions : vertices[u].edges[v].weights[c] >= 0

(* C6: add_edge with an id that is no vertex of the graph raises and       *)
(* leaves the vertex set and every adjacency map as they were.             *)
C6_UnknownEndpointRejected ==
    [][ \A e \in EdgeCalls, w \in WeightChoices :
          ( /\ add_edge(e[1], e[2], w)
            /\ (e[1] \notin DOMAIN vertices \/ e[2] \notin DOMAIN vertices) )
          => (ret'.raised /\ vertices' = vertices) ]_vars

(* add_edge has raised for a pair of which one vertex exists, and that     *)
(* vertex has edges already.                                               *)
C6_Witness ==
    /\ ret.op = "add_edge"
    /\ ret.raised
    /\ \E i \in {1, 2} :
          /\ ret.args[i] \in DOMAIN vertices
          /\ ret.args[3 - i] \notin DOMAIN vertices
          /\ DOMAIN vertices[ret.args[i]].edges # {}

(* C7: v is a key of u's adjacency map iff u is a key of v's, both slots   *)
(* hold the same edge, and its endpoints are the vertices now stored under *)
(* u and v.                                                                *)
C7_AdjacencySymmetric ==
    \A u \in DOMAIN vertices : \A v \in DOMAIN vertices[u].edges :
        /\ v \in DOMAIN vertices
        /\ u \in DOMAIN vertices[v].edges
        /\ vertices[v].edges[u].obj = vertices[u].edges[v].obj
        /\ {vertices[u].edges[v].vertex1, vertices[u].edges[v].vertex2}
             = {vertices[u].obj, vertices[v].obj}

----------------------------------------------------------------------------
(* The last call was find_nearest_cop(target, c) and it returned.          *)
FindReturned == ret.op = "find_nearest_cop" /\ ~ret.raised

SomeCopReaches(t) ==
    \E i \in 1..Len(cops) : Reachable(vertices, cops[i][2], t)

(* C8: when some resource reaches the target, find_nearest_cop returns the *)
(* first resource of the directory whose cost to the target is the least,  *)
(* that cost, and a path from its location to the target whose edge costs  *)
(* sum to the cost; with non-negative costs under c no path from any       *)
(* resource to the target is cheaper.                                      *)
C8_NearestResource ==
    (FindReturned /\ SomeCopReaches(ret.args[1])) =>
      LET t       == ret.args[1]
          c       == ret.args[2]
          res     == ret.value
          cost(i) == dijkstra(vertices, cops[i][2], t, c)[1]
      IN \E i \in 1..Len(cops) :
            /\ res[1] = cops[i][1]
            /\ res[2] = cost(i)
            /\ \A j \in 1..Len(cops) : cost(i) <= cost(j)
            /\ \A j \in 1..(i - 1) : cost(i) < cost(j)
            /\ res[3] \in Walks(vertices, cops[i][2], t)
            /\ WalkCost(vertices, res[3], c) = res[2]
            /\ NonNegativeUnder(vertices, c) =>
                 \A j \in 1..Len(cops) : \A p \in Walks(vertices, cops[j][2], t) :
                     res[2] <= WalkCost(vertices, p, c)

(* R1, first in the directory, at distance 10 and R2 at distance 5.        *)
C8_Witness ==
    /\ FindReturned
    /\ cops = << <<"R1", 0>>, <<"R2", 1>> >>
    /\ ret.args = <<2, "normal">>
    /\ dijkstra(vertices, 0, 2, "normal")[1] = 10
    /\ ret.value = <<"R2", 5, <<1, 2>>>>

(* C9: with no assignment find_nearest_cop returns no resource, no cost    *)
(* and no path, and with assignments it never returns that outcome.        *)
C9_EmptyDirectory ==
    ret.op = "find_nearest_cop" =>
      /\ cops = <<>> => (~ret.raised /\ ret.value = <<NoneCop, None, NonePath>>)
      /\ (cops # <<>> /\ ~ret.raised) => ret.value # <<NoneCop, None, NonePath>>

(* find_nearest_cop on an empty directory over a graph with an edge at the *)
(* target.                                                                 *)
C9_Witness ==
    /\ FindReturned
    /\ cops = <<>>
    /\ ret.args[1] \in DOMAIN vertices
    /\ DOMAIN vertices[ret.args[1]].edges # {}
    /\ ret.value = <<NoneCop, None, NonePath>>

AllCopsUnreachable ==
    /\ ret.op = "find_nearest_cop"
    /\ cops # <<>>
    /\ ret.args[1] \in DOMAIN vertices
    /\ ~SomeCopReaches(ret.args[1])

----------------------------------------------------------------------------
(* The items of the directory, and its keys being distinct.                *)
Items(cs) == { cs[i] : i \in 1..Len(cs) }

KeysUnique(cs) == \A i, j \in 1..Len(cs) : cs[i][1] = cs[j][1] => i = j

(* C11: a successful add_cop(r, v) makes v the one location of r and       *)
(* leaves the other resources alone; add_cop with an id that is no vertex  *)
(* raises and leaves the directory unchanged; remove_cop(r) removes the    *)
(* assignment of r only and changes nothing when r is absent; no other     *)
(* call changes the directory.                                             *)
C11_DirectoryLifecycle ==
    [][ /\ KeysUnique(cops')
        /\ \A k \in CopCalls :
              add_cop(k[1], k[2]) =>
                IF k[2] \in DOMAIN vertices
                THEN /\ ~ret'.raised
                     /\ Items(cops') =
                          { it \in Items(cops) : it[1] # k[1] } \cup {k}
                ELSE ret'.raised /\ cops' = cops
        /\ \A r \in CopIds :
              remove_cop(r) =>
                /\ Items(cops') = { it \in Items(cops) : it[1] # r }
                /\ (\A it \in Items(cops) : it[1] # r) => cops' = cops
        /\ ret'.op \notin {"add_cop", "remove_cop"} => cops' = cops ]_vars

(* add_cop has raised for a resource that is assigned, while two resources *)
(* share one vertex.                                                       *)
C11_Witness ==
    /\ ret.op = "add_cop"
    /\ ret.raised
    /\ Len(cops) = 2
    /\ cops[1][2] = cops[2][2]
    /\ \E i \in 1..2 : cops[i][1] = ret.args[1]

----------------------------------------------------------------------------
(* C12: a path returned with a finite cost starts with a, ends with b,     *)
(* repeats no vertex, joins each vertex to the next by an edge of its      *)
(* adjacency map, and the costs of those edges under c sum to the cost     *)
(* returned.                                                               *)
C12_PathWellFormed ==
    (DijkstraReturned /\ ret.value[1] < Infinity) =>
      LET p == ret.value[2]
      IN /\ Len(p) >= 1
         /\ p[1] = ret.args[1]
         /\ p[Len(p)] = ret.args[2]
         /\ \A i, j \in 1..Len(p) : p[i] = p[j] => i = j
         /\ \A i \in 1..(Len(p) - 1) : p[i + 1] \in DOMAIN vertices[p[i]].edges
         /\ WalkCost(vertices, p, ret.args[3]) = ret.value[1]

(* A path over three vertices in a graph with a negative light cost.       *)
C12_Witness ==
    /\ DijkstraReturned
    /\ ret.args[3] = "light"
    /\ ~NonNegativeUnder(vertices, "light")
    /\ ret.value[1] < Infinity
    /\ Len(ret.value[2]) = 3

----------------------------------------------------------------------------
(* The loop of dijkstra without the break: an iteration pops the least     *)
(* tuple, skips a visited vertex and otherwise visits it and relaxes its   *)
(* neighbours, until the heap is empty.                                    *)
IterationNoBreak(vs, st, traffic_condition) ==
    LET top    == HeapMin(st.pq)
        popped == [st EXCEPT !.pq = heappop(@)]
    IN IF top[2] \in st.visited THEN popped
       ELSE ForNeighbors(vs, [popped EXCEPT !.visited = @ \cup {top[2]}],
                         top[1], top[2], DOMAIN vs[top[2]].edges, traffic_condition)

RECURSIVE RunToEmpty(_, _, _)
RunToEmpty(vs, st, traffic_condition) ==
    IF st.pq = EmptyBag THEN st
    ELSE RunToEmpty(vs, IterationNoBreak(vs, st, traffic_condition), traffic_condition)

(* C13: the cost and path dijkstra returns by breaking at the pop of the   *)
(* target are those of the loop run until the heap is empty, and the       *)
(* target's distance and predecessor at the break are those of that run.   *)
C13_EarlyBreakSameResult ==
    DijkstraReturned =>
      LET a     == ret.args[1]
          b     == ret.args[2]
          c     == ret.args[3]
          early == WhileLoop(vertices, DijkstraInit(vertices, a), b, c)
          full  == RunToEmpty(vertices, DijkstraInit(vertices, a), c)
      IN /\ ret.value = <<full.distances[b], ReconstructPath(full.predecessors, b)>>
         /\ early.distances[b] = full.distances[b]
         /\ early.predecessors[b] = full.predecessors[b]

(* The break leaves tuples on the heap and a vertex unvisited that the     *)
(* full run visits, in a graph of non-negative costs under c.              *)
C13_Witness ==
    /\ DijkstraReturned
    /\ NonNegativeUnder(vertices, ret.args[3])
    /\ ret.args[1] # ret.args[2]
    /\ ret.value[1] < Infinity
    /\ LET early == WhileLoop(vertices, DijkstraInit(vertices, ret.args[1]),
                              ret.args[2], ret.args[3])
           full  == RunToEmpty(vertices, DijkstraInit(vertices, ret.args[1]),
                               ret.args[3])
       IN /\ early.broke
          /\ early.pq # EmptyBag
          /\ Cardinality(full.visited) >= Cardinality(early.visited) + 2

----------------------------------------------------------------------------
Running == frame.pc # "none"

LoopDone == frame.pc = "walk" /\ (frame.st.pq = EmptyBag \/ frame.st.broke)

Returned == frame.pc = "none" /\ ret.op = "dijkstra" /\ ~ret.raised

(* An iteration of the while loop visits at most one vertex, one that was  *)
(* not visited and that it has just popped, and only such an iteration     *)
(* changes a distance.                                                     *)
VisitsOnce ==
    (frame.pc = "while" /\ frame'.pc = "while") =>
      LET s == frame.st
          t == frame'.st
      IN /\ t.visited # s.visited =>
              \E v \in DOMAIN vertices :
                 /\ v \notin s.visited
                 /\ v = HeapMin(s.pq)[2]
                 /\ t.visited = s.visited \cup {v}
         /\ t.distances # s.distances => t.visited # s.visited
         /\ s.visited \subseteq t.visited

(* The walk over the predecessors never comes back to a vertex.            *)
WalkNeverCycles ==
    frame'.pc = "walk" =>
      /\ \A i, j \in 1..Len(frame'.path) : frame'.path[i] = frame'.path[j] => i = j
      /\ frame'.current_id # None =>
            \A i \in 1..Len(frame'.path) : frame'.path[i] # frame'.current_id

(* C14: a dijkstra call between two existing vertices of any graph built   *)
(* by add_vertex and add_edge, self-loops, overwritten edges and negative  *)
(* costs included, terminates: a vertex is visited at most once, the loop  *)
(* ends with the heap empty or the target popped, and the walk over the    *)
(* predecessors ends at a vertex without predecessor and never cycles.     *)
C14_Termination ==
    /\ [][VisitsOnce /\ WalkNeverCycles]_vars
    /\ (frame.pc = "while") ~> LoopDone
    /\ Running ~> Returned

(* The walk has ended after three vertices in a graph with a self-loop and *)
(* a negative cost under the condition of the call.                        *)
C14_Witness ==
    /\ frame.pc = "walk"
    /\ frame.current_id = None
    /\ Len(frame.path) = 3
    /\ ~NonNegativeUnder(vertices, frame.args[3])
    /\ \E v \in DOMAIN vertices : v \in DOMAIN vertices[v].edges
====
